---- MODULE Spec2Model ----
(***************************************************************************)
(* Model of the plugin runtime of plao (src/src/runtime.rs, src/src/lib.rs):*)
(* the RuntimeDispatcher (counter, subscribers, results), its dispatch     *)
(* loop, the PluginRuntime (run, load_plugin, drop), Plugin::execute and   *)
(* the host event loop that reads the call queue through a Handle and      *)
(* answers through resolver()/rejecter().                                  *)
(*                                                                         *)
(* Calls are numbered 1..MaxCalls in the order in which they are started;  *)
(* any number of them may be in progress at once (each on its own thread). *)
(***************************************************************************)
EXTENDS Integers, Sequences, FiniteSets, TLC

\* ---- bounds of the model
MaxCalls == 3       \* load_plugin / execute calls started in one behaviour
MaxOutcomes == 3    \* outcomes the host sends in one behaviour
NumPlugins == 3     \* Plugin proxies built in one behaviour
MaxStrays == 1      \* outcomes the host sends for ids it has not read
MaxStrayId == 1     \* the largest id of such an outcome

\* ---- program constants
\* i64::MAX of `if self.counter == i64::MAX` (runtime.rs:166); TLC's integers
\* are 32 bits wide, and the counter of this model stays below MaxCalls + 1.
I64Max == 2147483647
\* the counter of a new RuntimeDispatcher (runtime.rs:233)
InitialCounter == 0
\* The reserved id of a fatal outcome (spec 4.1); runtime.rs reserves none.
\* 0 is never minted: register hands out counter + 1 >= 1.
Sentinel == 0

Calls == 1..MaxCalls
Plugins == 1..NumPlugins

\* PluginCallResult::Ok / ::Err values the host answers with
OkValues == {"result"}
ErrValues == {"boom"}
\* Result<R::Ok, R::Err>
BusinessResults == ({"Ok"} \X OkValues) \cup ({"Err"} \X ErrValues)
\* ids the host may put on an outcome for which it has read no envelope
HostIds == 0..MaxStrayId

NoReturn == <<"none", "none">>
RuntimeError(e) == <<"RuntimeError", e>>

VARIABLES
    runtime,        \* PluginRuntime: [alive, call_sender, result_sender]
    counter,        \* RuntimeDispatcher.counter
    subscribers,    \* RuntimeDispatcher.subscribers: call id -> reply Sender (the call it belongs to)
    results,        \* RuntimeDispatcher.results: call id -> cached Result
    locks,          \* the two mutexes: holder of the dispatcher's, state of the subscribers', poison flags
    call_queue,     \* channel of PluginOpCall, proxies -> event loop
    result_queue,   \* channel of PluginOpCallResult, resolver/rejecter -> dispatch loop
    call,           \* per call: pc, kind, plugin, op_id, inbox (reply channel), ret, out
    started,        \* number of calls started so far
    proxies,        \* Plugin proxies handed out and not yet dropped
    built,          \* number of Plugin values built so far
    dloop,          \* dispatch loop future: [pc, res, sender]
    eloop,          \* event loop: [pc, seen]
    left_pending,   \* history: the calls waiting unanswered when the runtime was dropped
    answered,       \* history: per call, the outcomes the host sent for its envelope
    strayed         \* history: number of outcomes the host sent for ids it had not read

VARIABLE loader     \* PluginLoader::load_plugins: [pc, idx, excludes, opened, failed, cur, call_of, loaded]

\* the state of the runtime, its dispatcher, its callers and its host
runtime_vars ==
    <<runtime, counter, subscribers, results, locks, call_queue, result_queue,
      call, started, proxies, built, dloop, eloop, left_pending, answered, strayed>>

vars == <<runtime_vars, loader>>

\* ---- helpers on finite maps
EmptyMap == [x \in {} |-> 0]
MapPut(m, k, v) == [x \in DOMAIN m \cup {k} |-> IF x = k THEN v ELSE m[x]]
MapRemove(m, k) == [x \in DOMAIN m \ {k} |-> m[x]]
SetMax(S) == CHOOSE x \in S : \A y \in S : y <= x

NewCall == [pc |-> "new", kind |-> "none", plugin |-> 0, op_id |-> 0,
            inbox |-> <<>>, ret |-> NoReturn, out |-> NoReturn]

\* ---- the Source of a PluginLoader (trait PluginSource, lib.rs:28-32):
\* plugins() returns these identifiers, in this order
SourcePlugins == <<"A", "B", "C">>
Identifiers == {SourcePlugins[i] : i \in 1..Len(SourcePlugins)}

\* a PluginLoader on which load_plugins has not been called (lib.rs:76-81)
NewLoader == [pc |-> "idle", idx |-> 1, excludes |-> {}, opened |-> {}, failed |-> {},
              call_of |-> EmptyMap, loaded |-> <<>>]

Init ==
    /\ runtime = [alive |-> TRUE, call_sender |-> FALSE, result_sender |-> TRUE]
    /\ counter = InitialCounter
    /\ subscribers = EmptyMap
    /\ results = EmptyMap
    /\ locks = [dispatcher |-> {}, dispatcher_poisoned |-> FALSE,
                subscribers |-> "free", subscribers_poisoned |-> FALSE]
    /\ call_queue = <<>>
    /\ result_queue = <<>>
    /\ call = [k \in Calls |-> NewCall]
    /\ started = 0
    /\ proxies = {}
    /\ built = 0
    /\ dloop = [pc |-> "new", res |-> <<>>, sender |-> <<>>]
    /\ eloop = [pc |-> "new", seen |-> {}]
    /\ left_pending = {}
    /\ answered = [k \in Calls |-> <<>>]
    /\ strayed = 0
    /\ loader = NewLoader

\* ---- PluginRuntime::run (runtime.rs:117-128): creates the call channel and
\* hands its receiver, with a clone of the result sender, to the event loop.
run ==
    /\ runtime.alive
    /\ ~runtime.call_sender
    /\ eloop.pc = "new"
    /\ dloop.pc # "new"                 \* lib.rs:194-196: dispatcher.run() comes first
    /\ runtime' = [runtime EXCEPT !.call_sender = TRUE]
    /\ eloop' = [eloop EXCEPT !.pc = "running"]
    /\ UNCHANGED <<loader, built, counter, subscribers, results, locks, call_queue, result_queue,
                   call, started, proxies, dloop, left_pending, answered, strayed>>


\* ---- who still holds an end of a channel
ActivePcs == {"insert", "send", "wait"}
Active(k) == call[k].pc \in ActivePcs
Loading == {k \in Calls : call[k].kind = "load_plugin" /\ Active(k)}

\* the runtime's call sender outlives the runtime
CallSendersKept == 1 + Cardinality(proxies)
\* Sender<PluginOpCall<C>> clones: the runtime's (runtime.rs:61), one per Plugin
\* (lib.rs:36), and the one of the Plugin load_plugin is building (runtime.rs:138)
CallSenders ==
    (IF runtime.call_sender THEN 1 ELSE 0) + Cardinality(proxies) + Cardinality(Loading)
\* the Receiver<PluginOpCall<C>> lives in the Handle given to the event loop (runtime.rs:123)
CallReceiverAlive == eloop.pc # "done"
\* Sender<PluginOpCallResult> clones: the runtime's (runtime.rs:59) and the Handle's (runtime.rs:122)
ResultSenders ==
    (IF runtime.result_sender THEN 1 ELSE 0) + (IF eloop.pc = "running" THEN 1 ELSE 0)
\* the Receiver<PluginOpCallResult> lives in the dispatcher, then in its future (runtime.rs:201)
ResultReceiverAlive == dloop.pc \notin {"done", "panicked"}
\* the Receiver of a call's reply channel lives in the PluginOpCallBack that
\* execute holds from register's return to its own return (lib.rs:48-60)
ReplyReceiverAlive(k) == call[k].pc \in {"send", "wait"}
\* the Sender of a call's reply channel lives in subscribers (runtime.rs:190)
\* or in the dispatch loop between remove and send (runtime.rs:218-219)
ReplySenderAlive(k) ==
    \/ \E id \in DOMAIN subscribers : subscribers[id] = k
    \/ dloop.pc = "forward" /\ dloop.sender = <<k>>

\* ---- results handed to callers
\* load_plugin's `pl.execute(loading_call).and_then(|_result| Ok(pl))` (runtime.rs:141)
and_then(r, p) == IF r[1] = "Ok" THEN <<"Ok", <<"Plugin", p>>>> ELSE r

Returned(c, r) ==
    [c EXCEPT !.pc = "returned", !.ret = r,
              !.out = IF c.kind = "load_plugin" THEN and_then(r, c.plugin) ELSE r]
Panicked(c) == [c EXCEPT !.pc = "panicked"]
\* the proxies alive once call k has returned r: load_plugin hands its Plugin out on Ok
ProxiesAfter(k, r) ==
    IF call[k].kind = "load_plugin" /\ and_then(r, call[k].plugin)[1] = "Ok"
    THEN proxies \cup {call[k].plugin} ELSE proxies

\* ---- RuntimeDispatcher::register, first half (runtime.rs:166-178), entered
\* through self.dispatcher.lock().unwrap() (lib.rs:43).
\* keys.first().unwrap() (runtime.rs:177) meets an empty table
ScanPanics(cnt, subs) == cnt > 0 /\ DOMAIN subs = {}
\* the value of `counter` after lines 169-178 otherwise: the largest pending id
ScanCounter(cnt, subs) == IF cnt > 0 THEN SetMax(DOMAIN subs) ELSE cnt

\* call k, of kind `kind` on the Plugin p, takes the dispatcher lock and runs
\* register up to line 178
register_scan(k, kind, p) ==
    /\ locks.dispatcher = {}
    /\ LET c == [call[k] EXCEPT !.kind = kind, !.plugin = p] IN
       IF locks.dispatcher_poisoned
       THEN \* lock() is Err(PoisonError); unwrap panics (lib.rs:43)
            /\ call' = [call EXCEPT ![k] = Panicked(c)]
            /\ UNCHANGED <<counter, locks>>
       ELSE IF counter = I64Max
       THEN /\ call' = [call EXCEPT ![k] = Returned(c, RuntimeError("too many ops"))]
            /\ UNCHANGED <<counter, locks>>
       ELSE IF counter > 0 /\ locks.subscribers_poisoned
       THEN \* subscribers.lock().unwrap() panics with the dispatcher guard held
            /\ call' = [call EXCEPT ![k] = Panicked(c)]
            /\ locks' = [locks EXCEPT !.dispatcher_poisoned = TRUE]
            /\ UNCHANGED counter
       ELSE /\ counter > 0 => locks.subscribers = "free"
            /\ IF ScanPanics(counter, subscribers)
               THEN \* both guards are held when unwrap panics: both mutexes are poisoned
                    /\ counter' = 0
                    /\ call' = [call EXCEPT ![k] = Panicked(c)]
                    /\ locks' = [locks EXCEPT !.dispatcher_poisoned = TRUE,
                                              !.subscribers_poisoned = TRUE]
               ELSE /\ counter' = ScanCounter(counter, subscribers)
                    /\ call' = [call EXCEPT ![k] = [c EXCEPT !.pc = "insert"]]
                    /\ locks' = [locks EXCEPT !.dispatcher = {k}]

\* ---- PluginRuntime::load_plugin (runtime.rs:130-141) up to the middle of
\* register; get_call_sender unwraps call_sender (runtime.rs:143-145), which
\* is None before run().
load_plugin(k, p) ==
    /\ k = started + 1
    /\ k \in Calls
    /\ p = built + 1
    /\ p \in Plugins
    /\ runtime.alive
    /\ Loading = {}                     \* load_plugin takes &mut self
    /\ started' = k
    /\ built' = p
    /\ IF runtime.call_sender
       THEN register_scan(k, "load_plugin", p)
       ELSE /\ call' = [call EXCEPT ![k] =
                          [@ EXCEPT !.pc = "panicked", !.kind = "load_plugin", !.plugin = p]]
            /\ UNCHANGED <<counter, locks>>
    /\ UNCHANGED <<runtime, subscribers, results, call_queue, result_queue,
                   proxies, dloop, eloop, left_pending, answered, strayed>>

\* ---- a Plugin built directly on the runtime's call sender and dispatcher, as
\* the struct literals of lib.rs:169-173 and runtime.rs:136-140 build one
\* (get_call_sender, runtime.rs:143-145, hands out the sender).
new_plugin(p) ==
    /\ p = built + 1
    /\ p \in Plugins
    /\ runtime.alive
    /\ runtime.call_sender
    /\ started = 0                      \* the proxies are built before the first call
    /\ built' = p
    /\ proxies' = proxies \cup {p}
    /\ UNCHANGED <<loader, runtime, counter, subscribers, results, locks, call_queue, result_queue,
                   call, started, dloop, eloop, left_pending, answered, strayed>>

\* a call is inside Plugin::execute on the proxy p
Executing(p) == \E j \in Calls : call[j].kind = "execute" /\ call[j].plugin = p /\ Active(j)

\* ---- Plugin::execute on a proxy (lib.rs:41-44) up to the middle of register
execute(k, p) ==
    /\ k = started + 1
    /\ k \in Calls
    /\ p \in proxies
    /\ ~Executing(p)                    \* execute takes &mut self
    /\ \A q \in proxies : q < p => Executing(q)   \* idle proxies are alike: take the first
    /\ started' = k
    /\ register_scan(k, "execute", p)
    /\ UNCHANGED <<loader, built, runtime, subscribers, results, call_queue, result_queue,
                   proxies, dloop, eloop, left_pending, answered, strayed>>

\* register as if the caller kept the dispatcher guard after register returned
register_insert_keeps_guard(k) ==
    /\ call[k].pc = "insert"
    /\ locks.dispatcher = {k}
    /\ locks.subscribers = "free"
    /\ counter' = counter + 1
    /\ LET id == counter + 1 IN
       IF locks.subscribers_poisoned
       THEN /\ call' = [call EXCEPT ![k] = Panicked(@)]
            /\ locks' = [locks EXCEPT !.dispatcher = {}, !.dispatcher_poisoned = TRUE]
            /\ UNCHANGED <<subscribers, results, proxies>>
       ELSE IF id \in DOMAIN subscribers
       THEN /\ call' = [call EXCEPT ![k] = Returned(@, RuntimeError("already registered"))]
            /\ proxies' = ProxiesAfter(k, RuntimeError("already registered"))
            /\ UNCHANGED locks
            /\ UNCHANGED <<subscribers, results>>
       ELSE IF id \in DOMAIN results
       THEN \* the cached result is sent on the new reply channel; no entry is inserted
            /\ call' = [call EXCEPT ![k] = [@ EXCEPT !.pc = "send", !.op_id = id,
                                                      !.inbox = <<results[id]>>]]
            /\ results' = MapRemove(results, id)
            /\ UNCHANGED locks
            /\ UNCHANGED <<subscribers, proxies>>
       ELSE /\ call' = [call EXCEPT ![k] = [@ EXCEPT !.pc = "send", !.op_id = id]]
            /\ subscribers' = MapPut(subscribers, id, k)
            /\ UNCHANGED locks
            /\ UNCHANGED <<results, proxies>>
    /\ UNCHANGED <<loader, built, runtime, call_queue, result_queue, started, dloop, eloop,
                   left_pending, answered, strayed>>

\* register as if it never looked into the result cache
register_insert_ignores_cache(k) ==
    /\ call[k].pc = "insert"
    /\ locks.dispatcher = {k}
    /\ locks.subscribers = "free"
    /\ counter' = counter + 1
    /\ LET id == counter + 1 IN
       IF locks.subscribers_poisoned
       THEN /\ call' = [call EXCEPT ![k] = Panicked(@)]
            /\ locks' = [locks EXCEPT !.dispatcher = {}, !.dispatcher_poisoned = TRUE]
            /\ UNCHANGED <<subscribers, results, proxies>>
       ELSE IF id \in DOMAIN subscribers
       THEN /\ call' = [call EXCEPT ![k] = Returned(@, RuntimeError("already registered"))]
            /\ proxies' = ProxiesAfter(k, RuntimeError("already registered"))
            /\ locks' = [locks EXCEPT !.dispatcher = {}]
            /\ UNCHANGED <<subscribers, results>>
       ELSE /\ call' = [call EXCEPT ![k] = [@ EXCEPT !.pc = "send", !.op_id = id]]
            /\ subscribers' = MapPut(subscribers, id, k)
            /\ locks' = [locks EXCEPT !.dispatcher = {}]
            /\ UNCHANGED <<results, proxies>>
    /\ UNCHANGED <<loader, built, runtime, call_queue, result_queue, started, dloop, eloop,
                   left_pending, answered, strayed>>

\* ---- RuntimeDispatcher::register, second half (runtime.rs:179-196); the
\* dispatcher guard is released when register returns (lib.rs:44).
register_insert(k) ==
    /\ call[k].pc = "insert"
    /\ locks.dispatcher = {k}
    /\ locks.subscribers = "free"
    /\ counter' = counter + 1
    /\ LET id == counter + 1 IN
       IF locks.subscribers_poisoned
       THEN /\ call' = [call EXCEPT ![k] = Panicked(@)]
            /\ locks' = [locks EXCEPT !.dispatcher = {}, !.dispatcher_poisoned = TRUE]
            /\ UNCHANGED <<subscribers, results, proxies>>
       ELSE IF id \in DOMAIN subscribers
       THEN /\ call' = [call EXCEPT ![k] = Returned(@, RuntimeError("already registered"))]
            /\ proxies' = ProxiesAfter(k, RuntimeError("already registered"))
            /\ locks' = [locks EXCEPT !.dispatcher = {}]
            /\ UNCHANGED <<subscribers, results>>
       ELSE IF id \in DOMAIN results
       THEN \* the cached result is sent on the new reply channel; no entry is inserted
            /\ call' = [call EXCEPT ![k] = [@ EXCEPT !.pc = "send", !.op_id = id,
                                                      !.inbox = <<results[id]>>]]
            /\ results' = MapRemove(results, id)
            /\ locks' = [locks EXCEPT !.dispatcher = {}]
            /\ UNCHANGED <<subscribers, proxies>>
       ELSE /\ call' = [call EXCEPT ![k] = [@ EXCEPT !.pc = "send", !.op_id = id]]
            /\ subscribers' = MapPut(subscribers, id, k)
            /\ locks' = [locks EXCEPT !.dispatcher = {}]
            /\ UNCHANGED <<results, proxies>>
    /\ UNCHANGED <<loader, built, runtime, call_queue, result_queue, started, dloop, eloop,
                   left_pending, answered, strayed>>

\* the payload of a call: plugin_loader(plugin) for load_plugin, the caller's otherwise
Payload(c) == IF c.kind = "load_plugin" THEN "bootstrap" ELSE "payload"

\* ---- Plugin::execute, self.call_sender.send (lib.rs:49-54). `of` is a
\* history tag naming the call the envelope belongs to.
execute_send(k) ==
    /\ call[k].pc = "send"
    /\ IF CallReceiverAlive
       THEN /\ call_queue' = Append(call_queue,
                                    [call_id |-> call[k].op_id, call |-> Payload(call[k]), of |-> k])
            /\ call' = [call EXCEPT ![k].pc = "wait"]
            /\ UNCHANGED proxies
       ELSE /\ call' = [call EXCEPT ![k] = Returned(@, RuntimeError("sending on a closed channel"))]
            /\ proxies' = ProxiesAfter(k, RuntimeError("sending on a closed channel"))
            /\ UNCHANGED call_queue
    /\ UNCHANGED <<loader, built, runtime, counter, subscribers, results, locks, result_queue, started,
                   dloop, eloop, left_pending, answered, strayed>>

\* ---- Plugin::execute, callback.recv() (lib.rs:55-61): blocks while the reply
\* channel is empty and its Sender alive.
execute_recv(k) ==
    /\ call[k].pc = "wait"
    /\ call[k].inbox # <<>> \/ ~ReplySenderAlive(k)
    /\ LET r == IF call[k].inbox # <<>> THEN <<"Ok", Head(call[k].inbox)>>
                ELSE RuntimeError("receiving on a closed channel") IN
       /\ call' = [call EXCEPT ![k] = Returned([@ EXCEPT !.inbox = <<>>], r)]
       /\ proxies' = ProxiesAfter(k, r)
    /\ UNCHANGED <<loader, built, runtime, counter, subscribers, results, locks, call_queue, result_queue,
                   started, dloop, eloop, left_pending, answered, strayed>>

\* ---- Drop for PluginRuntime (runtime.rs:64-69)
drop_runtime ==
    /\ runtime.alive
    /\ Loading = {}
    /\ runtime' = [alive |-> FALSE, call_sender |-> FALSE, result_sender |-> FALSE]
    /\ left_pending' = {k \in Calls : call[k].pc = "wait" /\ answered[k] = <<>>}
    /\ UNCHANGED <<loader, built, counter, subscribers, results, locks, call_queue, result_queue, call,
                   started, proxies, dloop, eloop, answered, strayed>>

\* ---- the Plugin proxies are dropped by their owner (drop(plugins),
\* lib.rs:204): their call senders go
drop_plugins ==
    /\ proxies # {}
    /\ \A p \in proxies : ~Executing(p)
    /\ proxies' = {}
    /\ UNCHANGED <<loader, built, runtime, counter, subscribers, results, locks, call_queue, result_queue,
                   call, started, dloop, eloop, left_pending, answered, strayed>>

\* ---- RuntimeDispatcher::run (runtime.rs:200-204): the future is spawned
dispatcher_run ==
    /\ dloop.pc = "new"
    /\ dloop' = [dloop EXCEPT !.pc = "recv"]
    /\ UNCHANGED <<loader, built, runtime, counter, subscribers, results, locks, call_queue, result_queue,
                   call, started, proxies, eloop, left_pending, answered, strayed>>

DloopIdle(pc) == [pc |-> pc, res |-> <<>>, sender |-> <<>>]

\* the dispatch step as if an outcome that finds no entry were dropped
dispatch_recv_drops ==
    /\ dloop.pc = "recv"
    /\ IF result_queue = <<>>
       THEN /\ ResultSenders = 0          \* RecvError: break
            /\ dloop' = DloopIdle("done")
            /\ UNCHANGED <<result_queue, subscribers, results, locks>>
       ELSE LET res == Head(result_queue)
                id == res.call_id IN
            /\ locks.subscribers = "free"
            /\ IF locks.subscribers_poisoned
               THEN \* subscribers_cloned.lock().unwrap() panics; the future is dropped
                    /\ dloop' = DloopIdle("panicked")
                    /\ result_queue' = <<>>
                    /\ UNCHANGED <<subscribers, results, locks>>
               ELSE IF id \notin DOMAIN subscribers
               THEN /\ result_queue' = Tail(result_queue)
                    /\ UNCHANGED <<dloop, subscribers, results, locks>>
               ELSE /\ subscribers' = MapRemove(subscribers, id)
                    /\ result_queue' = Tail(result_queue)
                    /\ dloop' = [pc |-> "forward", res |-> res, sender |-> <<subscribers[id]>>]
                    /\ locks' = [locks EXCEPT !.subscribers = "dispatch"]
                    /\ UNCHANGED results
    /\ UNCHANGED <<loader, built, runtime, counter, call_queue, call, started, proxies, eloop,
                   left_pending, answered, strayed>>

\* ---- dispatch loop, from receiver.recv() to the removal of the Pending
\* Entry (runtime.rs:205-218)
dispatch_recv ==
    /\ dloop.pc = "recv"
    /\ IF result_queue = <<>>
       THEN /\ ResultSenders = 0          \* RecvError: break
            /\ dloop' = DloopIdle("done")
            /\ UNCHANGED <<result_queue, subscribers, results, locks>>
       ELSE LET res == Head(result_queue)
                id == res.call_id IN
            /\ locks.subscribers = "free"
            /\ IF locks.subscribers_poisoned
               THEN \* subscribers_cloned.lock().unwrap() panics; the future is dropped
                    /\ dloop' = DloopIdle("panicked")
                    /\ result_queue' = <<>>
                    /\ UNCHANGED <<subscribers, results, locks>>
               ELSE IF id \notin DOMAIN subscribers
               THEN /\ results' = MapPut(results, id, res.result)
                    /\ result_queue' = Tail(result_queue)
                    /\ UNCHANGED <<dloop, subscribers, locks>>
               ELSE /\ subscribers' = MapRemove(subscribers, id)
                    /\ result_queue' = Tail(result_queue)
                    /\ dloop' = [pc |-> "forward", res |-> res, sender |-> <<subscribers[id]>>]
                    /\ locks' = [locks EXCEPT !.subscribers = "dispatch"]
                    /\ UNCHANGED results
    /\ UNCHANGED <<loader, built, runtime, counter, call_queue, call, started, proxies, eloop,
                   left_pending, answered, strayed>>

\* the forward as if the subscribers guard outlived the iteration
dispatch_forward_keeps_lock ==
    /\ dloop.pc = "forward"
    /\ IF ReplyReceiverAlive(dloop.sender[1])
       THEN /\ call' = [call EXCEPT ![dloop.sender[1]].inbox = Append(@, dloop.res.result)]
            /\ dloop' = DloopIdle("recv")
            /\ UNCHANGED result_queue
       ELSE /\ dloop' = DloopIdle("done")   \* SendError: break
            /\ result_queue' = <<>>
            /\ UNCHANGED call
    /\ UNCHANGED locks
    /\ UNCHANGED <<loader, built, runtime, counter, subscribers, results, call_queue, started, proxies,
                   eloop, left_pending, answered, strayed>>

\* the forward as if a failed send were only printed and the loop went on
dispatch_forward_continues ==
    /\ dloop.pc = "forward"
    /\ IF ReplyReceiverAlive(dloop.sender[1])
       THEN /\ call' = [call EXCEPT ![dloop.sender[1]].inbox = Append(@, dloop.res.result)]
            /\ dloop' = DloopIdle("recv")
            /\ UNCHANGED result_queue
       ELSE /\ dloop' = DloopIdle("recv")
            /\ UNCHANGED <<result_queue, call>>
    /\ locks' = [locks EXCEPT !.subscribers = "free"]
    /\ UNCHANGED <<loader, built, runtime, counter, subscribers, results, call_queue, started, proxies,
                   eloop, left_pending, answered, strayed>>

\* ---- dispatch loop, sender.send(res.result) with the subscribers guard still
\* held (runtime.rs:219-222); the guard goes at the end of the iteration.
dispatch_forward ==
    /\ dloop.pc = "forward"
    /\ IF ReplyReceiverAlive(dloop.sender[1])
       THEN /\ call' = [call EXCEPT ![dloop.sender[1]].inbox = Append(@, dloop.res.result)]
            /\ dloop' = DloopIdle("recv")
            /\ UNCHANGED result_queue
       ELSE /\ dloop' = DloopIdle("done")   \* SendError: break
            /\ result_queue' = <<>>
            /\ UNCHANGED call
    /\ locks' = [locks EXCEPT !.subscribers = "free"]
    /\ UNCHANGED <<loader, built, runtime, counter, subscribers, results, call_queue, started, proxies,
                   eloop, left_pending, answered, strayed>>

\* ---- event loop: the closure of Handle::call_receiver returns the next
\* envelope (runtime.rs:101-113, test_utils.rs:62)
host_receive ==
    /\ eloop.pc = "running"
    /\ call_queue # <<>>
    /\ eloop' = [eloop EXCEPT !.seen = @ \cup {Head(call_queue)}]
    /\ call_queue' = Tail(call_queue)
    /\ UNCHANGED <<loader, built, runtime, counter, subscribers, results, locks, result_queue, call,
                   started, proxies, dloop, left_pending, answered, strayed>>

\* the number of outcomes the host has sent
RECURSIVE SumLen(_, _)
SumLen(f, n) == IF n = 0 THEN 0 ELSE Len(f[n]) + SumLen(f, n - 1)
n_outcomes == strayed + SumLen(answered, MaxCalls)

\* the ids of the envelopes the event loop has read
SeenIds == {e.call_id : e \in eloop.seen}

\* sender.send of resolver()/rejecter() (runtime.rs:80-85, 92-97): an error is only printed
SendOutcome(id, r) ==
    IF ResultReceiverAlive
    THEN Append(result_queue, [call_id |-> id, result |-> r])
    ELSE result_queue

\* ---- event loop: resolve or reject the id of an envelope it has read
\* (runtime.rs:77-99); nothing stops it from answering the same one again.
host_answer(e, r) ==
    /\ eloop.pc = "running"
    /\ e \in eloop.seen
    /\ n_outcomes < MaxOutcomes
    /\ result_queue' = SendOutcome(e.call_id, r)
    /\ answered' = [answered EXCEPT ![e.of] = Append(@, r)]
    /\ UNCHANGED <<loader, built, runtime, counter, subscribers, results, locks, call_queue, call,
                   started, proxies, dloop, eloop, left_pending, strayed>>

\* ---- event loop: resolve or reject an id it has read no envelope for
\* (runtime.rs:77-99 take any PluginOpCallId)
host_stray(id, r) ==
    /\ eloop.pc = "running"
    /\ id \notin SeenIds
    /\ n_outcomes < MaxOutcomes
    /\ strayed < MaxStrays
    /\ result_queue' = SendOutcome(id, r)
    /\ strayed' = strayed + 1
    /\ UNCHANGED <<loader, built, runtime, counter, subscribers, results, locks, call_queue, call,
                   started, proxies, dloop, eloop, left_pending, answered>>

\* ---- event loop: receive() fails once every call sender is gone and the
\* closure's `while let Ok(r) = receive()` ends (test_utils.rs:62-64)
event_loop_disconnected ==
    /\ eloop.pc = "running"
    /\ call_queue = <<>>
    /\ CallSenders = 0
    /\ eloop' = [pc |-> "done", seen |-> {}]
    /\ UNCHANGED <<loader, built, runtime, counter, subscribers, results, locks, call_queue, result_queue,
                   call, started, proxies, dloop, left_pending, answered, strayed>>

\* ---- event loop: the host's closure returns of its own accord
\* (runtime.rs:125-127); the Handle and the envelopes still queued are dropped.
event_loop_returns ==
    /\ eloop.pc = "running"
    /\ CallSenders > 0
    /\ eloop' = [pc |-> "done", seen |-> {}]
    /\ call_queue' = <<>>
    /\ UNCHANGED <<loader, built, runtime, counter, subscribers, results, locks, result_queue,
                   call, started, proxies, dloop, left_pending, answered, strayed>>

\* ---- PluginLoader::load_plugins (lib.rs:83-101). The two filter_map
\* adapters are lazy: each identifier is filtered, opened and loaded before
\* the next one is looked at.
\* the exclude list is never consulted
ExcludedNever(item, excludes) == FALSE
\* excludes.contains(item) (lib.rs:87)
Excluded(item, excludes) == item \in excludes

\* the loader moves on to the next identifier, or collect() returns the Vec
NextItem(l) ==
    [l EXCEPT !.idx = @ + 1,
              !.pc = IF l.idx + 1 > Len(SourcePlugins) THEN "done" ELSE "running"]

\* load_plugins(excludes) is called (lib.rs:83-85)
load_plugins(excludes) ==
    /\ loader.pc = "idle"
    /\ runtime.alive
    /\ loader' = [loader EXCEPT !.pc = "running", !.excludes = excludes]
    /\ UNCHANGED runtime_vars

\* one identifier goes through the chain (lib.rs:86-96): skipped when it is
\* excluded, skipped when source.open fails (`opens` is what open returns),
\* handed to runtime.load_plugin otherwise
load_plugins_item(k, p, opens) ==
    /\ loader.pc = "running"
    /\ LET item == SourcePlugins[loader.idx] IN
       IF Excluded(item, loader.excludes)
       THEN /\ loader' = NextItem(loader)
            /\ UNCHANGED runtime_vars
       ELSE IF ~opens
       THEN /\ loader' = NextItem([loader EXCEPT !.failed = @ \cup {item}])
            /\ UNCHANGED runtime_vars
       ELSE /\ load_plugin(k, p)
            /\ loader' = [loader EXCEPT !.pc = "loading", !.opened = @ \cup {item},
                                        !.call_of = MapPut(@, item, k)]

\* runtime.load_plugin has returned (lib.rs:96-99): Ok(pl) is collected, an
\* error is printed and skipped; a panic unwinds through load_plugins
load_plugins_collect ==
    /\ loader.pc = "loading"
    /\ LET item == SourcePlugins[loader.idx]
           c == call[loader.call_of[item]] IN
       /\ c.pc \in {"returned", "panicked"}
       /\ loader' = IF c.pc = "panicked" THEN [loader EXCEPT !.pc = "panicked"]
                    ELSE IF c.out[1] = "Ok"
                    THEN NextItem([loader EXCEPT !.loaded = Append(@, item)])
                    ELSE NextItem(loader)
    /\ UNCHANGED runtime_vars

\* load_plugins borrows the loader, and with it the runtime, until it returns
LoaderBusy == loader.pc \in {"running", "loading"}

\* PluginRuntime::run before the runtime is moved into PluginLoader::new
\* (lib.rs:196-197)
loader_run == loader.pc = "idle" /\ run

\* Drop for PluginLoader (lib.rs:69-73) drops the runtime it owns
drop_loader == ~LoaderBusy /\ drop_runtime

\* the proxies load_plugins returned are the caller's to use
loader_execute(k, p) == loader.pc = "done" /\ execute(k, p)

\* drop(plugins) (lib.rs:204) once load_plugins has returned them
loader_drop_plugins == ~LoaderBusy /\ drop_plugins

Next ==
    \/ run
    \/ drop_runtime
    \/ dispatcher_run
    \/ \E k \in Calls, p \in Plugins : load_plugin(k, p) /\ UNCHANGED loader
    \/ \E p \in Plugins : new_plugin(p)
    \/ \E k \in Calls, p \in Plugins : execute(k, p)
    \/ \E k \in Calls : register_insert(k)
    \/ \E k \in Calls : execute_send(k)
    \/ \E k \in Calls : execute_recv(k)
    \/ drop_plugins
    \/ dispatch_recv
    \/ dispatch_forward
    \/ host_receive
    \/ \E e \in eloop.seen, r \in BusinessResults : host_answer(e, r)
    \/ \E id \in HostIds, r \in BusinessResults : host_stray(id, r)
    \/ event_loop_disconnected
    \/ event_loop_returns

Spec == Init /\ [][Next]_vars

\* ---- the runtime owned by a PluginLoader (lib.rs:64-67): load_plugin is
\* called by load_plugins only, and proxies are the ones load_plugins returns
NextLoader ==
    \/ loader_run
    \/ drop_loader
    \/ dispatcher_run
    \/ \E excludes \in SUBSET Identifiers : load_plugins(excludes)
    \/ \E k \in Calls, p \in Plugins, opens \in BOOLEAN : load_plugins_item(k, p, opens)
    \/ load_plugins_collect
    \/ \E k \in Calls, p \in Plugins : loader_execute(k, p)
    \/ \E k \in Calls : register_insert(k)
    \/ \E k \in Calls : execute_send(k)
    \/ \E k \in Calls : execute_recv(k)
    \/ loader_drop_plugins
    \/ dispatch_recv
    \/ dispatch_forward
    \/ host_receive
    \/ \E e \in eloop.seen, r \in BusinessResults : host_answer(e, r)
    \/ \E id \in HostIds, r \in BusinessResults : host_stray(id, r)
    \/ event_loop_disconnected
    \/ event_loop_returns

SpecLoader == Init /\ [][NextLoader]_vars

\* the two background units are spawned tasks (lib.rs:199-200): the dispatch
\* loop keeps taking outcomes and the host's closure keeps calling receive()
\* (test_utils.rs:62) for as long as they can
LoopsFairness ==
    /\ WF_vars(host_receive)
    /\ WF_vars(event_loop_disconnected)
    /\ WF_vars(dispatch_recv)
    /\ WF_vars(dispatch_forward)

SpecLoaderFair == SpecLoader /\ LoopsFairness

\* ---- vocabulary of the claims
Finished(k) == call[k].pc \in {"returned", "panicked"}
\* the call has left register with a call id and has not returned yet
Registered(k) == call[k].pc \in {"send", "wait"}
\* execute handed the caller a business-level outcome
GotOutcome(k) == call[k].pc = "returned" /\ call[k].ret[1] = "Ok"
\* the ids of the envelopes waiting in the call queue
QueuedIds == [i \in 1..Len(call_queue) |-> call_queue[i].call_id]

\* C1 -- exactly-once delivery: a call that obtained a call id and whose
\* envelope the host answered with exactly one resolve or reject, the host
\* only ever answering ids it has read, returns exactly that outcome.
C1_ExactlyOnceDelivery ==
    \A k \in Calls :
        (/\ GotOutcome(k)
         /\ Len(answered[k]) = 1
         /\ strayed = 0)
        => call[k].ret = <<"Ok", answered[k][1]>>

\* C2 -- round trip: with an event loop that resolves every envelope it reads
\* with success, once, an execute on a proxy that load_plugin returned comes
\* back with success(v), v the value the event loop resolved it with.
HostResolvesAll ==
    /\ eloop.pc = "running"
    /\ strayed = 0
    /\ \A j \in Calls : Len(answered[j]) <= 1 /\ (\A i \in 1..Len(answered[j]) : answered[j][i][1] = "Ok")
C2_RoundTrip ==
    \A k, j \in Calls :
        (/\ call[k].kind = "load_plugin" /\ call[k].pc = "returned" /\ call[k].out[1] = "Ok"
         /\ call[j].kind = "execute" /\ call[j].plugin = call[k].plugin
         /\ Finished(j)
         /\ HostResolvesAll)
        => /\ call[j].pc = "returned"
           /\ Len(answered[j]) = 1
           /\ call[j].out = <<"Ok", answered[j][1]>>

\* C3 -- uniqueness: two calls that have both registered and not yet returned
\* never carry the same call id, and no two envelopes in flight share an id.
C3_ConcurrentIdsDistinct ==
    /\ \A j, k \in Calls :
          (j # k /\ Registered(j) /\ Registered(k)) => call[j].op_id # call[k].op_id
    /\ \A i, j \in 1..Len(call_queue) : i # j => QueuedIds[i] # QueuedIds[j]

\* C4 -- a call id is never reused: no two calls of a behaviour, finished or
\* not, were given the same call id.
C4_IdNeverReused ==
    \A j, k \in Calls :
        (j # k /\ call[j].op_id # 0 /\ call[k].op_id # 0) => call[j].op_id # call[k].op_id

\* C5 -- fatal broadcast: when the dispatch loop takes an outcome tagged with
\* the sentinel id and carrying a failure while calls are pending, every
\* pending call is handed that failure, the table is emptied and the loop ends.
DispatchTakesHead ==
    dloop.pc = "recv" /\ result_queue # <<>> /\ Len(result_queue') < Len(result_queue)
C5_FatalBroadcast ==
    [][(/\ DispatchTakesHead
        /\ Head(result_queue).call_id = Sentinel
        /\ Head(result_queue).result[1] = "Err"
        /\ DOMAIN subscribers # {})
       => (/\ subscribers' = EmptyMap
           /\ dloop'.pc = "done"
           /\ \A id \in DOMAIN subscribers :
                 Registered(subscribers[id])
                 => call'[subscribers[id]].inbox = <<Head(result_queue).result>>)]_vars

\* C6 -- no hang on shutdown: a call that was waiting unanswered when the
\* runtime was dropped, if it has returned, has returned a RuntimeError, and
\* is never left waiting on an empty reply channel once both loops have ended.
BothLoopsEnded == eloop.pc = "done" /\ dloop.pc \in {"done", "panicked"}
C6_NoHangOnShutdown ==
    \A k \in left_pending :
        /\ call[k].pc = "returned" => call[k].ret[1] = "RuntimeError"
        /\ ~(call[k].pc = "wait" /\ call[k].inbox = <<>> /\ BothLoopsEnded)

\* C7 -- plugin admission: load_plugin hands the proxy out exactly when the
\* bootstrap call ended in business-level success, and otherwise returns
\* FailedToLoad and hands out no proxy.
BootstrapSucceeded(k) == call[k].ret[1] = "Ok" /\ call[k].ret[2][1] = "Ok"
C7_PluginAdmission ==
    \A k \in Calls :
        (call[k].kind = "load_plugin" /\ call[k].pc = "returned")
        => IF BootstrapSucceeded(k)
           THEN call[k].out = <<"Ok", <<"Plugin", call[k].plugin>>>>
           ELSE call[k].out[1] = "FailedToLoad"

\* C8 -- load_plugin on a runtime on which run() has not been called returns a
\* RuntimeError, registers no call id and sends no envelope.
NotYetRun == runtime.alive /\ ~runtime.call_sender
C8_LoadBeforeRun ==
    \A k \in Calls :
        (NotYetRun /\ call[k].kind = "load_plugin")
        => /\ call[k].pc = "returned"
           /\ call[k].out[1] = "RuntimeError"
           /\ call[k].op_id = 0
           /\ call_queue = <<>>

\* C9 -- execute never aborts: no call of execute ends in a panic.
C9_ExecuteNeverAborts ==
    \A k \in Calls : call[k].kind = "execute" => call[k].pc # "panicked"

\* C10 -- duplicate answers are dropped: with a host that answers only ids it
\* has read, whatever it answers more than once, the outcome a call returns is
\* the first one the host sent for that call's own envelope.
C10_DuplicatesDropped ==
    \A k \in Calls :
        (GotOutcome(k) /\ strayed = 0)
        => /\ answered[k] # <<>>
           /\ call[k].ret[2] = answered[k][1]

\* ---- PluginLoader claims (SpecLoader)
\* the call load_plugins made for an identifier
BootstrapCall(item) == loader.call_of[item]
\* the batch so far is the one of a Source whose A opens and is resolved with
\* success, whose B fails to open and whose C opens and is rejected, the host
\* answering each bootstrap envelope once and nothing else
PartialFailureScenario ==
    /\ loader.excludes = {}
    /\ loader.failed \subseteq {"B"}
    /\ "B" \notin loader.opened
    /\ strayed = 0
    /\ \A item \in DOMAIN loader.call_of :
          LET k == BootstrapCall(item) IN
          /\ Len(answered[k]) <= 1
          /\ \A i \in 1..Len(answered[k]) :
                answered[k][i][1] = (IF item = "C" THEN "Err" ELSE "Ok")
          /\ (item = "A" /\ call[k].pc \in {"returned", "panicked"}) => answered[k] # <<>>

\* C11 -- partial-failure loading: with A loading fine, B failing to open and
\* C failing its bootstrap call, load_plugins([]) does not abort and returns
\* exactly the proxy of A.
C11_PartialFailureLoading ==
    PartialFailureScenario
    => /\ loader.pc # "panicked"
       /\ loader.pc = "done" => loader.loaded = <<"A">>

\* C12 -- exclude list: an excluded identifier is never opened, has no
\* bootstrap call or envelope and is not in the returned list; with every
\* identifier excluded the result is empty and the Correlation Table and the
\* Call Queue are as they were.
C12_ExcludeList ==
    /\ (loader.opened \cup loader.failed \cup DOMAIN loader.call_of) \cap loader.excludes = {}
    /\ \A i \in 1..Len(loader.loaded) : loader.loaded[i] \notin loader.excludes
    /\ \A i \in 1..Len(call_queue) :
          call_queue[i].call = "bootstrap"
          => \E item \in Identifiers \ loader.excludes :
                item \in DOMAIN loader.call_of /\ BootstrapCall(item) = call_queue[i].of
    /\ (loader.excludes = Identifiers /\ loader.pc = "done")
       => /\ loader.loaded = <<>>
          /\ subscribers = EmptyMap
          /\ call_queue = <<>>
          /\ started = 0
\* load_plugins has returned A alone, B and C being excluded
C12_Witness ==
    /\ loader.pc = "done"
    /\ loader.excludes = {"B", "C"}
    /\ loader.loaded = <<"A">>
    /\ loader.opened = {"A"}

\* the runtime and every proxy are dropped, no call is in flight, and the two
\* background units had been started
CleanlyDropped ==
    /\ ~runtime.alive
    /\ proxies = {}
    /\ \A k \in Calls : ~Active(k)
    /\ eloop.pc # "new"

\* C13 -- clean shutdown: once the runtime (loader) and every proxy have been
\* dropped with no call in flight, the event loop returns and the dispatch
\* loop ends: both background units eventually finish.
C13_CleanShutdown == CleanlyDropped ~> BothLoopsEnded
\* the shutdown of tests::loader: a plugin was loaded, everything was dropped,
\* and both loops have ended, the dispatch loop by leaving its loop
C13_Witness ==
    /\ CleanlyDropped
    /\ loader.loaded # <<>>
    /\ eloop.pc = "done"
    /\ dloop.pc = "done"

\* ---- concurrency and table claims (Spec)
\* C14 -- registration before dispatch: with a host that only answers ids it
\* has read, whenever an envelope is placed on the Call Queue the Correlation
\* Table holds a Pending Entry for its id.
C14_RegistrationBeforeDispatch ==
    [][(strayed = 0 /\ Len(call_queue') > Len(call_queue))
       => call_queue'[Len(call_queue')].call_id \in DOMAIN subscribers]_vars

\* call a is blocked in callback.recv(): registered, sent, not answered
PendingUnanswered(a) ==
    /\ call[a].pc = "wait"
    /\ call[a].inbox = <<>>
    /\ answered[a] = <<>>
    /\ \E id \in DOMAIN subscribers : subscribers[id] = a

\* C15 -- callers are independent: a caller that has left register holds no
\* lock and returns as soon as its outcome is in its reply channel; while a
\* call is pending and unanswered, a call another caller starts gets through
\* the first half of register.
C15_CallersIndependent ==
    /\ [](\A k \in Calls :
            /\ call[k].pc \in {"send", "wait"} => k \notin locks.dispatcher
            /\ (call[k].pc = "wait" /\ call[k].inbox # <<>>) => ENABLED execute_recv(k))
    /\ [][\A a, b \in Calls :
            (PendingUnanswered(a) /\ call[b].pc = "new" /\ call'[b].pc # "new")
            => call'[b].pc = "insert"]_vars
\* a call started after a pending, unanswered one, on another proxy, has
\* returned the one outcome the host sent for it
C15_Witness ==
    \E a, b \in Calls :
        /\ a < b
        /\ PendingUnanswered(a)
        /\ call[b].kind = "execute"
        /\ call[b].plugin # call[a].plugin
        /\ call[b].pc = "returned"
        /\ Len(answered[b]) = 1
        /\ call[b].ret = <<"Ok", answered[b][1]>>

\* C16 -- deadlock freedom on locks: the dispatch loop never waits on its
\* queue with the table lock held; whoever holds the table lock can go on;
\* whoever holds the dispatcher lock is inside register and waits for nothing
\* but the table lock.
C16_LockDeadlockFreedom ==
    /\ dloop.pc = "recv" => locks.subscribers = "free"
    /\ locks.subscribers = "dispatch" => (dloop.pc = "forward" /\ ENABLED dispatch_forward)
    /\ \A k \in locks.dispatcher :
          /\ call[k].pc = "insert"
          /\ locks.subscribers = "free" => ENABLED register_insert(k)
\* a caller inside register waits for the table lock the dispatch loop holds
C16_Witness ==
    \E k \in Calls : locks.dispatcher = {k} /\ locks.subscribers = "dispatch"

\* C17 -- lock scope of the dispatch loop: an outcome is forwarded with the
\* table lock released, so a caller inside register is not held up by it.
C17_ForwardOutsideLock ==
    dloop.pc = "forward"
    => /\ locks.subscribers = "free"
       /\ \A k \in Calls : call[k].pc = "insert" => ENABLED register_insert(k)

C19_ForwardFailureEndsLoop ==
    [][/\ (/\ dloop.pc = "forward"
           /\ dloop'.pc # "forward"
           /\ call[dloop.sender[1]].pc \notin {"send", "wait"})
          => /\ dloop'.pc = "done"
             /\ dloop.res.call_id \notin DOMAIN subscribers'
             /\ subscribers' = subscribers
             /\ \A k \in Calls : call'[k].inbox = call[k].inbox
       /\ dloop.pc = "done"
          => /\ dloop'.pc = "done"
             /\ result_queue' = <<>>
             /\ \A k \in Calls :
                   Len(call'[k].inbox) > Len(call[k].inbox) => call[k].pc = "insert"]_vars
\* the loop has ended with the Result Queue still connected and entries left
C19_Witness ==
    /\ dloop.pc = "done"
    /\ ResultSenders > 0
    /\ subscribers # EmptyMap

\* C20 -- no orphan Pending Entries: every entry of the Correlation Table
\* belongs to a call that has not returned yet.
C20_NoOrphanEntries ==
    \A id \in DOMAIN subscribers : call[subscribers[id]].pc \notin {"returned", "panicked"}

\* C21 -- the pending table and the result cache are disjoint: no call id is
\* at once a key of subscribers and a key of results.
C21_TableCacheDisjoint == DOMAIN subscribers \cap DOMAIN results = {}
\* calls are pending while the cache holds an outcome for an id that register
\* has handed out
C21_Witness ==
    /\ subscribers # EmptyMap
    /\ \E id \in DOMAIN results :
          \E k \in Calls : call[k].pc \in {"send", "wait", "returned"} /\ call[k].op_id = id
====
